---- MODULE Spec2Model ----
(***************************************************************************)
(* A model of the FRAIL repository: the GhostNet architecture definition   *)
(* (src/ghostnet.py) and the line-dataset harness                          *)
(* (src/FRAIL/data/dataset.py).                                            *)
(*                                                                         *)
(* Tensors are modelled by their shapes, modules by records of their       *)
(* constructor arguments; a parameter of a state_dict is a shape and a     *)
(* value.  Each component has its own specification; a component that a    *)
(* specification does not exercise stays in its idle value.                *)
(***************************************************************************)
EXTENDS Integers, Sequences, FiniteSets, TLC

VARIABLES md, gm, gb, net, ld, ds, hs

vars == <<md, gm, gb, net, ld, ds, hs>>

(***************************************************************************)
(* Bounds of the model.                                                    *)
(***************************************************************************)
MaxV == 40
MaxDivisor == 8
MaxMinValue == 9
MaxCh == 4
MaxBatch == 1
MaxHW == 4
MaxKernel == 5
MaxNetBatch == 3
MaxWidthMult == 2
MaxShape == 2
MaxValue == 1
MaxFileLen == 4
MaxLines == 6
MaxBatchSize == 3

(***************************************************************************)
(* Idle values of the components.                                          *)
(***************************************************************************)
Idle == [pc |-> "idle"]

Max(a, b) == IF a >= b THEN a ELSE b

Min(a, b) == IF a <= b THEN a ELSE b

(***************************************************************************)
(* _make_divisible (src/ghostnet.py:7-13).                                 *)
(*                                                                         *)
(* None is the empty sequence, an explicit min_value m is <<m>>.           *)
(***************************************************************************)
None == <<>>

\* A rounding that always goes up to the next multiple: int(v + divisor).
RoundUp(v, divisor) == ((v + divisor) \div divisor) * divisor

\* int(v + divisor / 2) // divisor * divisor, for an integer v >= 0:
\* v + divisor/2 is the exact rational (2v + divisor)/2, int() truncates it.
RoundHalfUp(v, divisor) == (((2 * v + divisor) \div 2) \div divisor) * divisor

\* A threshold of 0.5 in place of 0.9.
NeedsBumpHalf(new_v, v) == 2 * new_v < v

\* new_v < 0.9 * v.  For the integers of this model the float product 0.9 * v
\* is exact whenever 9v is a multiple of 10, and otherwise lies strictly
\* between two integers on the same side as 9v/10, so the comparison is the
\* integer comparison 10 * new_v < 9 * v.
NeedsBump(new_v, v) == 10 * new_v < 9 * v

DefaultMinValue(divisor, min_value) ==
    IF min_value = None THEN divisor ELSE min_value[1]

MakeDivisible(v, divisor, min_value) ==
    LET mv == DefaultMinValue(divisor, min_value)
        new_v == Max(mv, RoundHalfUp(v, divisor))
    IN  IF NeedsBump(new_v, v) THEN new_v + divisor ELSE new_v

MinValues == {None} \cup {<<m>> : m \in (0 - MaxMinValue)..MaxMinValue}

\* The arguments of a call, not yet made.
MdInit ==
    \E v \in 0..MaxV, divisor \in 1..MaxDivisor, min_value \in MinValues :
        md = [pc |-> "args", v |-> v, divisor |-> divisor,
              min_value |-> min_value, ret |-> 0, prev |-> 0]

\* new_v = _make_divisible(v, divisor, min_value)
MdCall ==
    /\ md.pc = "args"
    /\ md' = [md EXCEPT !.pc = "returned",
                        !.ret = MakeDivisible(md.v, md.divisor, md.min_value)]
    /\ UNCHANGED <<gm, gb, net, ld, ds, hs>>

\* _make_divisible(_make_divisible(v, d, m), d, m): the result is rounded again.
MdCallAgain ==
    /\ md.pc = "returned"
    /\ md' = [md EXCEPT !.pc = "returned_again",
                        !.prev = md.ret,
                        !.ret = MakeDivisible(md.ret, md.divisor, md.min_value)]
    /\ UNCHANGED <<gm, gb, net, ld, ds, hs>>

DivInit ==
    /\ MdInit
    /\ gm = Idle /\ gb = Idle /\ net = Idle /\ ld = Idle /\ ds = Idle /\ hs = Idle

DivNext == MdCall \/ MdCallAgain

DivSpec == DivInit /\ [][DivNext]_vars

(***************************************************************************)
(* C1: with min_value left at its default, _make_divisible never returns   *)
(* a width more than 10% below the request (10 r >= 9 v), and              *)
(* _make_divisible(16, 4) = 16, _make_divisible(15, 4) = 16.               *)
(***************************************************************************)
C1_NeverTenPercentBelow ==
    (md.pc = "returned" /\ md.min_value = None) =>
        /\ 10 * md.ret >= 9 * md.v
        /\ (md.v = 16 /\ md.divisor = 4) => md.ret = 16
        /\ (md.v = 15 /\ md.divisor = 4) => md.ret = 16

\* A call whose first rounding fell more than 10% short and was bumped.
C1_Witness ==
    /\ md.pc = "returned" /\ md.min_value = None
    /\ 10 * RoundHalfUp(md.v, md.divisor) < 9 * md.v
    /\ md.ret = RoundHalfUp(md.v, md.divisor) + md.divisor

(***************************************************************************)
(* C2: for every v >= 0, divisor >= 1 and integer min_value (given or      *)
(* defaulted), the result is a multiple of divisor and is >= min_value.    *)
(***************************************************************************)
C2_MultipleAndAtLeastMin ==
    md.pc = "returned" =>
        /\ md.ret % md.divisor = 0
        /\ md.ret >= DefaultMinValue(md.divisor, md.min_value)

(***************************************************************************)
(* C3: _make_divisible is idempotent under the default min_value: rounding *)
(* an already rounded width returns it unchanged, with no extra bump.      *)
(***************************************************************************)
C3_Idempotent ==
    (md.pc = "returned_again" /\ md.min_value = None) =>
        /\ md.ret = md.prev
        /\ ~NeedsBump(Max(md.divisor, RoundHalfUp(md.prev, md.divisor)), md.prev)

\* A second rounding of a width that the first call changed and bumped.
C3_Witness ==
    /\ md.pc = "returned_again" /\ md.min_value = None
    /\ md.prev # md.v
    /\ NeedsBump(Max(md.divisor, RoundHalfUp(md.v, md.divisor)), md.v)
    /\ md.ret = md.prev

(***************************************************************************)
(* Tensors, by shape.  A tensor is [ok |-> TRUE, dims |-> its sizes]; Err  *)
(* is the outcome of an operation that raises.                             *)
(***************************************************************************)
Tensor(dims) == [ok |-> TRUE, dims |-> dims]

Err == [ok |-> FALSE, dims |-> <<>>]

Is4D(x) == x.ok /\ Len(x.dims) = 4

Is2D(x) == x.ok /\ Len(x.dims) = 2

(***************************************************************************)
(* The layers of torch.nn that src/ghostnet.py builds, as records of their *)
(* constructor arguments.  The forward pass is modelled in evaluation mode *)
(* (src/ghostnet.py:178 calls model.eval() before the forward pass), where *)
(* normalisation and dropout preserve the shape.                           *)
(***************************************************************************)
Conv2d(in_channels, out_channels, kernel_size, stride, padding, groups) ==
    [op |-> "Conv2d", in_channels |-> in_channels, out_channels |-> out_channels,
     kernel_size |-> kernel_size, stride |-> stride, padding |-> padding,
     groups |-> groups]

BatchNorm2d(num_features) == [op |-> "BatchNorm2d", num_features |-> num_features]

BatchNorm1d(num_features) == [op |-> "BatchNorm1d", num_features |-> num_features]

ReLU == [op |-> "ReLU"]

Dropout == [op |-> "Dropout"]

AdaptiveAvgPool2d(output_size) ==
    [op |-> "AdaptiveAvgPool2d", output_size |-> output_size]

Linear(in_features, out_features) ==
    [op |-> "Linear", in_features |-> in_features, out_features |-> out_features]

Sequential(layers) == [op |-> "Sequential", layers |-> layers]

\* nn.ReLU(inplace=True) if relu else nn.Sequential()
ReLUIf(relu) == IF relu THEN ReLU ELSE Sequential(<<>>)

\* The size of one spatial dimension after a convolution.
ConvOut(size, kernel_size, stride, padding) ==
    ((size + 2 * padding - kernel_size) \div stride) + 1

Conv2dForward(m, x) ==
    IF /\ Is4D(x)
       /\ x.dims[2] = m.in_channels
       /\ m.groups >= 1
       /\ m.in_channels % m.groups = 0
       /\ m.out_channels % m.groups = 0
       /\ x.dims[3] + 2 * m.padding >= m.kernel_size
       /\ x.dims[4] + 2 * m.padding >= m.kernel_size
    THEN Tensor(<<x.dims[1], m.out_channels,
                  ConvOut(x.dims[3], m.kernel_size, m.stride, m.padding),
                  ConvOut(x.dims[4], m.kernel_size, m.stride, m.padding)>>)
    ELSE Err

LinearForward(m, x) ==
    IF Is2D(x) /\ x.dims[2] = m.in_features
    THEN Tensor(<<x.dims[1], m.out_features>>)
    ELSE Err

\* torch.cat([x1, x2], dim=1)
Cat1(x1, x2) ==
    IF /\ Is4D(x1) /\ Is4D(x2)
       /\ x1.dims[1] = x2.dims[1] /\ x1.dims[3] = x2.dims[3] /\ x1.dims[4] = x2.dims[4]
    THEN Tensor(<<x1.dims[1], x1.dims[2] + x2.dims[2], x1.dims[3], x1.dims[4]>>)
    ELSE Err

\* out[:, :oup, :, :]
SliceChannels(x, oup) ==
    IF Is4D(x) THEN Tensor(<<x.dims[1], Min(oup, x.dims[2]), x.dims[3], x.dims[4]>>)
    ELSE Err

\* An elementwise binary operation of two tensors of the same rank: sizes
\* must be equal or one of them 1 (broadcasting).
Broadcast(a, b) ==
    IF /\ a.ok /\ b.ok /\ Len(a.dims) = Len(b.dims)
       /\ \A i \in 1..Len(a.dims) :
            a.dims[i] = b.dims[i] \/ a.dims[i] = 1 \/ b.dims[i] = 1
    THEN Tensor([i \in 1..Len(a.dims) |-> Max(a.dims[i], b.dims[i])])
    ELSE Err

\* x.view(sizes)
View(x, sizes) == IF x.ok THEN Tensor(sizes) ELSE Err

(***************************************************************************)
(* SELayer (src/ghostnet.py:28-43).                                        *)
(***************************************************************************)
Reduction == 4

SELayer(channel) ==
    [op |-> "SELayer",
     avg_pool |-> AdaptiveAvgPool2d(1),
     fc |-> Sequential(<<Linear(channel, channel \div Reduction),
                         ReLU,
                         Linear(channel \div Reduction, channel)>>)]

(***************************************************************************)
(* depthwise_conv (src/ghostnet.py:45-50).                                 *)
(***************************************************************************)
depthwise_conv(inp, oup, kernel_size, stride, relu) ==
    Sequential(<<Conv2d(inp, oup, kernel_size, stride, kernel_size \div 2, inp),
                 BatchNorm2d(oup),
                 ReLUIf(relu)>>)

(***************************************************************************)
(* GhostModule (src/ghostnet.py:52-75).                                    *)
(***************************************************************************)
\* oup // ratio: the floor in place of the ceiling.
InitChannelsFloor(oup, ratio) == oup \div ratio

\* math.ceil(oup / ratio)
InitChannels(oup, ratio) == (oup + ratio - 1) \div ratio

NewChannels(init_channels, ratio) == init_channels * (ratio - 1)

GhostModule(inp, oup, kernel_size, ratio, dw_size, stride, relu) ==
    LET init_channels == InitChannels(oup, ratio)
        new_channels == NewChannels(init_channels, ratio)
    IN  [op |-> "GhostModule",
         oup |-> oup,
         primary_conv |->
            Sequential(<<Conv2d(inp, init_channels, kernel_size, stride,
                                kernel_size \div 2, 1),
                         BatchNorm2d(init_channels),
                         ReLUIf(relu)>>),
         cheap_operation |->
            Sequential(<<Conv2d(init_channels, new_channels, dw_size, 1,
                                dw_size \div 2, init_channels),
                         BatchNorm2d(new_channels),
                         ReLUIf(relu)>>)]

(***************************************************************************)
(* GhostBottleneck (src/ghostnet.py:77-99).                                *)
(***************************************************************************)
Shortcut(inp, oup, stride) ==
    IF stride = 1 /\ inp = oup
    THEN Sequential(<<>>)
    ELSE Sequential(<<depthwise_conv(inp, inp, 3, stride, FALSE),
                      Conv2d(inp, oup, 1, 1, 0, 1),
                      BatchNorm2d(oup)>>)

GhostBottleneck(inp, hidden_dim, oup, kernel_size, stride, use_se) ==
    [op |-> "GhostBottleneck",
     conv |->
        Sequential(<<GhostModule(inp, hidden_dim, 1, 2, 3, 1, TRUE),
                     IF stride = 2
                     THEN depthwise_conv(hidden_dim, hidden_dim, kernel_size,
                                         stride, FALSE)
                     ELSE Sequential(<<>>),
                     IF use_se # 0 THEN SELayer(hidden_dim) ELSE Sequential(<<>>),
                     GhostModule(hidden_dim, oup, 1, 2, 3, 1, FALSE)>>),
     shortcut |-> Shortcut(inp, oup, stride)]

(***************************************************************************)
(* forward, by module type.                                                *)
(***************************************************************************)
RECURSIVE Forward(_, _)
RECURSIVE ForwardLayers(_, _, _)

\* nn.Sequential.forward: the layers from index i on, in order.
ForwardLayers(layers, i, x) ==
    IF i > Len(layers) THEN x
    ELSE ForwardLayers(layers, i + 1, Forward(layers[i], x))

\* SELayer.forward (src/ghostnet.py:38-43)
SELayerForward(m, x) ==
    IF ~Is4D(x) THEN Err
    ELSE LET b == x.dims[1]
             c == x.dims[2]
             pooled == View(Forward(m.avg_pool, x), <<b, c>>)
             y == Forward(m.fc, pooled)
         IN  IF y.ok /\ y.dims = <<b, c>>
             THEN Broadcast(x, View(y, <<b, c, 1, 1>>))
             ELSE Err

\* GhostModule.forward (src/ghostnet.py:71-75)
GhostModuleForward(m, x) ==
    LET x1 == Forward(m.primary_conv, x)
        x2 == Forward(m.cheap_operation, x1)
        out == Cat1(x1, x2)
    IN  SliceChannels(out, m.oup)

\* GhostBottleneck.forward (src/ghostnet.py:98-99)
GhostBottleneckForward(m, x) ==
    Broadcast(Forward(m.conv, x), Forward(m.shortcut, x))

Forward(m, x) ==
    IF ~x.ok THEN Err
    ELSE CASE m.op = "Conv2d" -> Conv2dForward(m, x)
           [] m.op = "BatchNorm2d" ->
                IF Is4D(x) /\ x.dims[2] = m.num_features THEN x ELSE Err
           [] m.op = "BatchNorm1d" ->
                IF Is2D(x) /\ x.dims[2] = m.num_features THEN x ELSE Err
           [] m.op = "ReLU" -> x
           [] m.op = "Dropout" -> x
           [] m.op = "AdaptiveAvgPool2d" ->
                IF Is4D(x)
                THEN Tensor(<<x.dims[1], x.dims[2], m.output_size, m.output_size>>)
                ELSE Err
           [] m.op = "Linear" -> LinearForward(m, x)
           [] m.op = "Sequential" -> ForwardLayers(m.layers, 1, x)
           [] m.op = "SELayer" -> SELayerForward(m, x)
           [] m.op = "GhostModule" -> GhostModuleForward(m, x)
           [] m.op = "GhostBottleneck" -> GhostBottleneckForward(m, x)

(***************************************************************************)
(* A GhostModule is constructed from drawn arguments and then applied to a *)
(* batch of inputs with inp channels.                                      *)
(***************************************************************************)
Ratios == {2, 3}

Inputs(channels) ==
    {Tensor(<<n, channels, h, w>>) : n \in 1..MaxBatch, h \in 1..MaxHW, w \in 1..MaxHW}

GmInit ==
    \E inp \in 1..MaxCh, oup \in 1..MaxCh, kernel_size \in {1, 3},
       ratio \in Ratios, stride \in {1, 2}, relu \in BOOLEAN :
        gm = [pc |-> "args", inp |-> inp, oup |-> oup, kernel_size |-> kernel_size,
              ratio |-> ratio, dw_size |-> 3, stride |-> stride, relu |-> relu,
              module |-> Sequential(<<>>), x |-> Err, out |-> Err]

\* GhostModule.__init__
GmConstruct ==
    /\ gm.pc = "args"
    /\ gm' = [gm EXCEPT !.pc = "constructed",
                        !.module = GhostModule(gm.inp, gm.oup, gm.kernel_size,
                                               gm.ratio, gm.dw_size, gm.stride,
                                               gm.relu)]
    /\ UNCHANGED <<md, gb, net, ld, ds, hs>>

\* GhostModule.forward, on a batch of inputs of inp channels
GmForward ==
    /\ gm.pc = "constructed"
    /\ \E x \in Inputs(gm.inp) :
        gm' = [gm EXCEPT !.pc = "forwarded", !.x = x, !.out = Forward(gm.module, x)]
    /\ UNCHANGED <<md, gb, net, ld, ds, hs>>

GmSpecInit ==
    /\ GmInit
    /\ md = Idle /\ gb = Idle /\ net = Idle /\ ld = Idle /\ ds = Idle /\ hs = Idle

GmNext == GmConstruct \/ GmForward

GmSpec == GmSpecInit /\ [][GmNext]_vars

(***************************************************************************)
(* C4: a GhostModule built for oup output channels with ratio = 2 emits    *)
(* exactly oup channels: the primary path has ceil(oup/ratio) channels,    *)
(* the cheap path init*(ratio-1) channels (a multiple of init), their      *)
(* concatenation at least oup channels, and the slice exactly oup.         *)
(***************************************************************************)
C4_GhostModuleEmitsOup ==
    (gm.pc = "forwarded" /\ gm.ratio = 2) =>
        LET x1 == Forward(gm.module.primary_conv, gm.x)
            x2 == Forward(gm.module.cheap_operation, x1)
            init == x1.dims[2]
        IN  /\ x1.ok /\ x2.ok /\ gm.out.ok
            /\ 2 * init >= gm.oup /\ 2 * (init - 1) < gm.oup
            /\ x2.dims[2] = init * (gm.ratio - 1)
            /\ x2.dims[2] % init = 0
            /\ Cat1(x1, x2).ok
            /\ Cat1(x1, x2).dims[2] >= gm.oup
            /\ gm.out.dims[2] = gm.oup

\* An odd oup: the two paths hold one channel more than oup, which the slice drops.
C4_Witness ==
    /\ gm.pc = "forwarded" /\ gm.ratio = 2
    /\ gm.oup % 2 = 1 /\ gm.oup >= 3
    /\ gm.out.ok /\ gm.out.dims[2] = gm.oup
    /\ Forward(gm.module.primary_conv, gm.x).dims[2] * 2 = gm.oup + 1

(***************************************************************************)
(* A GhostBottleneck is constructed from drawn arguments and then applied  *)
(* to a batch of inputs with inp channels.                                 *)
(***************************************************************************)
GbInit ==
    \E inp \in 1..MaxCh, hidden_dim \in 1..MaxCh, oup \in 1..MaxCh,
       kernel_size \in 1..MaxKernel, stride \in 1..3, use_se \in {0, 1} :
        gb = [pc |-> "args", inp |-> inp, hidden_dim |-> hidden_dim, oup |-> oup,
              kernel_size |-> kernel_size, stride |-> stride, use_se |-> use_se,
              module |-> Sequential(<<>>), x |-> Err, main |-> Err,
              residual |-> Err, out |-> Err]

\* GhostBottleneck.__init__: assert stride in [1, 2], then the two paths
GbConstruct ==
    /\ gb.pc = "args"
    /\ \/ /\ gb.stride \notin {1, 2}
          /\ gb' = [gb EXCEPT !.pc = "AssertionError"]
       \/ /\ gb.stride \in {1, 2}
          /\ gb' = [gb EXCEPT !.pc = "constructed",
                              !.module = GhostBottleneck(gb.inp, gb.hidden_dim,
                                                         gb.oup, gb.kernel_size,
                                                         gb.stride, gb.use_se)]
    /\ UNCHANGED <<md, gm, net, ld, ds, hs>>

\* GhostBottleneck.forward: self.conv(x) + self.shortcut(x)
GbForward ==
    /\ gb.pc = "constructed"
    /\ \E x \in Inputs(gb.inp) :
        gb' = [gb EXCEPT !.pc = "forwarded", !.x = x,
                         !.main = Forward(gb.module.conv, x),
                         !.residual = Forward(gb.module.shortcut, x),
                         !.out = Forward(gb.module, x)]
    /\ UNCHANGED <<md, gm, net, ld, ds, hs>>

GbSpecInit ==
    /\ GbInit
    /\ md = Idle /\ gm = Idle /\ net = Idle /\ ld = Idle /\ ds = Idle /\ hs = Idle

GbNext == GbConstruct \/ GbForward

GbSpec == GbSpecInit /\ [][GbNext]_vars

IsIdentity(m) == m = Sequential(<<>>)

\* A 3x3 depthwise convolution with the block's stride, then a pointwise
\* projection to oup.
IsProjection(m, inp, oup, stride) ==
    /\ m.op = "Sequential" /\ Len(m.layers) = 3
    /\ m.layers[1].layers[1] = Conv2d(inp, inp, 3, stride, 1, inp)
    /\ m.layers[2] = Conv2d(inp, oup, 1, 1, 0, 1)

(***************************************************************************)
(* C5: in a GhostBottleneck with stride in {1, 2} the main path and the    *)
(* shortcut produce the same (channels, height, width) for every input of  *)
(* shape (inp, H, W), for every kernel_size, use_se and H, W >= 1; the     *)
(* shortcut is the identity exactly when stride = 1 and inp = oup, and     *)
(* otherwise a strided 3x3 depthwise convolution and a projection to oup.  *)
(***************************************************************************)
C5_PathsAgree ==
    gb.pc = "forwarded" =>
        /\ gb.main.ok /\ gb.residual.ok
        /\ gb.main.dims = gb.residual.dims
        /\ gb.out.ok
        /\ IsIdentity(gb.module.shortcut) <=> (gb.stride = 1 /\ gb.inp = gb.oup)
        /\ ~IsIdentity(gb.module.shortcut) =>
              IsProjection(gb.module.shortcut, gb.inp, gb.oup, gb.stride)

\* The same statement for the odd kernel sizes only.
C5_PathsAgreeOddKernel ==
    (gb.pc = "forwarded" /\ gb.kernel_size % 2 = 1) => C5_PathsAgree

(***************************************************************************)
(* GhostNet (src/ghostnet.py:101-144) and ghost_net (154-174).             *)
(***************************************************************************)
\* k, t, c, SE, s
Cfgs ==
    << <<3,  16,  16, 0, 1>>,
       <<3,  48,  24, 0, 2>>,
       <<3,  72,  24, 0, 1>>,
       <<5,  72,  40, 1, 2>>,
       <<5, 120,  40, 1, 1>>,
       <<3, 240,  80, 0, 2>>,
       <<3, 200,  80, 0, 1>>,
       <<3, 184,  80, 0, 1>>,
       <<3, 184,  80, 0, 1>>,
       <<3, 480, 112, 1, 1>>,
       <<3, 672, 112, 1, 1>>,
       <<5, 672, 160, 1, 2>>,
       <<5, 960, 160, 0, 1>>,
       <<5, 960, 160, 1, 1>>,
       <<5, 960, 160, 0, 1>>,
       <<5, 960, 160, 1, 1>> >>

DefaultNumClasses == 1000

NumClassesChoices == {10, DefaultNumClasses}

ImageSize == 224

ClassifierWidth == 1280

WidthDivisor == 4

StemWidth == 16

\* The running width left at the previous block's input width.
KeepInputChannel(input_channel, output_channel) == input_channel

\* input_channel = output_channel (src/ghostnet.py:112, 119, 128)
NextInputChannel(input_channel, output_channel) == output_channel

Stem(output_channel) ==
    Sequential(<<Conv2d(3, output_channel, 3, 2, 1, 1),
                 BatchNorm2d(output_channel),
                 ReLU>>)

Squeeze(input_channel, output_channel) ==
    Sequential(<<Conv2d(input_channel, output_channel, 1, 1, 0, 1),
                 BatchNorm2d(output_channel),
                 ReLU,
                 AdaptiveAvgPool2d(1)>>)

Classifier(input_channel, output_channel, num_classes) ==
    Sequential(<<Linear(input_channel, output_channel),
                 BatchNorm1d(output_channel),
                 ReLU,
                 Dropout,
                 Linear(output_channel, num_classes)>>)

\* ghost_net(**kwargs): the arguments of GhostNet.__init__
NetInit ==
    \E num_classes \in NumClassesChoices, width_mult \in 1..MaxWidthMult :
        net = [pc |-> "init", cfgs |-> Cfgs, num_classes |-> num_classes,
               width_mult |-> width_mult, i |-> 0, layers |-> <<>>,
               input_channel |-> 0, output_channel |-> 0, exp_size |-> 0,
               features |-> Sequential(<<>>), squeeze |-> Sequential(<<>>),
               classifier |-> Sequential(<<>>), x |-> Err, n |-> 0, stage |-> 0]

\* GhostNet.__init__, the stem (src/ghostnet.py:105-113)
NetStem ==
    /\ net.pc = "init"
    /\ LET output_channel == MakeDivisible(StemWidth * net.width_mult, WidthDivisor, None)
       IN  net' = [net EXCEPT !.pc = "blocks",
                              !.output_channel = output_channel,
                              !.layers = <<Stem(output_channel)>>,
                              !.input_channel = NextInputChannel(0, output_channel),
                              !.i = 1]
    /\ UNCHANGED <<md, gm, gb, ld, ds, hs>>

\* GhostNet.__init__, one turn of the loop over cfgs (src/ghostnet.py:115-119)
NetAddBlock ==
    /\ net.pc = "blocks"
    /\ net.i <= Len(net.cfgs)
    /\ LET k == net.cfgs[net.i][1]
           exp_size == net.cfgs[net.i][2]
           c == net.cfgs[net.i][3]
           use_se == net.cfgs[net.i][4]
           s == net.cfgs[net.i][5]
           output_channel == MakeDivisible(c * net.width_mult, WidthDivisor, None)
           hidden_channel == MakeDivisible(exp_size * net.width_mult, WidthDivisor, None)
       IN  net' = [net EXCEPT
                !.output_channel = output_channel,
                !.exp_size = exp_size,
                !.layers = Append(net.layers,
                                  GhostBottleneck(net.input_channel, hidden_channel,
                                                  output_channel, k, s, use_se)),
                !.input_channel = NextInputChannel(net.input_channel, output_channel),
                !.i = net.i + 1]
    /\ UNCHANGED <<md, gm, gb, ld, ds, hs>>

\* GhostNet.__init__, after the loop (src/ghostnet.py:120-137)
NetHead ==
    /\ net.pc = "blocks"
    /\ net.i > Len(net.cfgs)
    /\ LET squeeze_channel == MakeDivisible(net.exp_size * net.width_mult, WidthDivisor, None)
           input_channel == NextInputChannel(net.input_channel, squeeze_channel)
       IN  net' = [net EXCEPT
                !.pc = "built",
                !.features = Sequential(net.layers),
                !.squeeze = Squeeze(net.input_channel, squeeze_channel),
                !.input_channel = input_channel,
                !.output_channel = ClassifierWidth,
                !.classifier = Classifier(input_channel, ClassifierWidth,
                                          net.num_classes)]
    /\ UNCHANGED <<md, gm, gb, ld, ds, hs>>

\* model(input), input of shape (N, 3, 224, 224) (src/ghostnet.py:183-184)
NetCall ==
    /\ net.pc = "built"
    /\ \E n \in 1..MaxNetBatch :
        net' = [net EXCEPT !.pc = "features", !.n = n, !.stage = 1,
                           !.x = Tensor(<<n, 3, ImageSize, ImageSize>>)]
    /\ UNCHANGED <<md, gm, gb, ld, ds, hs>>

\* x = self.features(x), one layer of the sequence
NetFeature ==
    /\ net.pc = "features"
    /\ net.stage <= Len(net.features.layers)
    /\ net' = [net EXCEPT !.x = Forward(net.features.layers[net.stage], net.x),
                          !.stage = net.stage + 1]
    /\ UNCHANGED <<md, gm, gb, ld, ds, hs>>

\* x = self.squeeze(x)
NetSqueeze ==
    /\ net.pc = "features"
    /\ net.stage > Len(net.features.layers)
    /\ net' = [net EXCEPT !.pc = "view", !.x = Forward(net.squeeze, net.x)]
    /\ UNCHANGED <<md, gm, gb, ld, ds, hs>>

\* x = x.view(x.size(0), -1)
NetView ==
    /\ net.pc = "view"
    /\ net' = [net EXCEPT
            !.pc = "classifier",
            !.x = IF Is4D(net.x)
                  THEN View(net.x, <<net.x.dims[1],
                                     net.x.dims[2] * net.x.dims[3] * net.x.dims[4]>>)
                  ELSE Err]
    /\ UNCHANGED <<md, gm, gb, ld, ds, hs>>

\* x = self.classifier(x); return x
NetClassifier ==
    /\ net.pc = "classifier"
    /\ net' = [net EXCEPT !.pc = "done", !.x = Forward(net.classifier, net.x)]
    /\ UNCHANGED <<md, gm, gb, ld, ds, hs>>

NetSpecInit ==
    /\ NetInit
    /\ md = Idle /\ gm = Idle /\ gb = Idle /\ ld = Idle /\ ds = Idle /\ hs = Idle

NetNext ==
    \/ NetStem \/ NetAddBlock \/ NetHead
    \/ NetCall \/ NetFeature \/ NetSqueeze \/ NetView \/ NetClassifier

NetSpec == NetSpecInit /\ [][NetNext]_vars

\* The input channel count a stage of self.features was constructed with.
BuiltInChannels(m) ==
    IF m.op = "GhostBottleneck"
    THEN m.conv.layers[1].primary_conv.layers[1].in_channels
    ELSE m.layers[1].in_channels

\* The output channel count a stage of self.features was constructed with.
BuiltOutChannels(m) ==
    IF m.op = "GhostBottleneck"
    THEN m.conv.layers[4].oup
    ELSE m.layers[1].out_channels

(***************************************************************************)
(* C6: the network of ghost_net() maps N inputs of shape 3x224x224 to an   *)
(* output of shape (N, num_classes); every stage was constructed with the  *)
(* input channel count that the preceding stage puts out (the stem and     *)
(* block widths through _make_divisible(., 4), the squeeze width the       *)
(* rounded expansion width of the last row), so no stage receives a        *)
(* mismatched shape.                                                       *)
(***************************************************************************)
C6_NetworkShapes ==
    /\ net.pc \in {"features", "view", "classifier", "done"} =>
          /\ net.x.ok
          /\ net.x.dims[1] = net.n
          /\ Len(net.features.layers) = Len(Cfgs) + 1
          /\ BuiltOutChannels(net.features.layers[1]) % WidthDivisor = 0
          /\ \A j \in 2..Len(net.features.layers) :
                /\ BuiltInChannels(net.features.layers[j])
                      = BuiltOutChannels(net.features.layers[j - 1])
                /\ BuiltOutChannels(net.features.layers[j]) % WidthDivisor = 0
                /\ BuiltOutChannels(net.features.layers[j])
                      >= Cfgs[j - 1][3] * net.width_mult
          /\ net.squeeze.layers[1].in_channels
                = BuiltOutChannels(net.features.layers[Len(net.features.layers)])
          /\ net.squeeze.layers[1].out_channels
                = net.features.layers[Len(net.features.layers)].conv.layers[1].oup
          /\ net.classifier.layers[1].in_features = net.squeeze.layers[1].out_channels
    /\ (net.pc = "features" /\ net.stage <= Len(net.features.layers)) =>
          net.x.dims[2] = BuiltInChannels(net.features.layers[net.stage])
    /\ (net.pc = "features" /\ net.stage > Len(net.features.layers)) =>
          net.x.dims[2] = net.squeeze.layers[1].in_channels
    /\ net.pc = "classifier" =>
          net.x.dims = <<net.n, net.classifier.layers[1].in_features>>
    /\ net.pc = "done" => net.x = Tensor(<<net.n, net.num_classes>>)

\* The default network has classified a batch of more than one input.
C6_Witness ==
    /\ net.pc = "done"
    /\ net.num_classes = DefaultNumClasses /\ net.width_mult = 1 /\ net.n > 1
    /\ net.x = Tensor(<<net.n, DefaultNumClasses>>)

(***************************************************************************)
(* load_pretrained_weights (src/ghostnet.py:15-25).                        *)
(*                                                                         *)
(* A state_dict is a function from parameter names to tensors, a tensor    *)
(* here being a shape and a value.  The model owns ModelKeys; the file may *)
(* hold any of FileKeys.                                                   *)
(***************************************************************************)
ModelKeys == {"features.0.0.weight", "classifier.4.weight"}

FileKeys == ModelKeys \cup {"fc.weight"}

Params == [shape : 1..MaxShape, value : 0..MaxValue]

StateDicts(keys) == UNION {[ks -> Params] : ks \in SUBSET keys}

\* No filtering: every loaded key is kept.
FilterNothing(pretrained_dict, model_dict) == pretrained_dict

\* {k: v for k, v in pretrained_dict.items() if k in model_dict}
FilterKeys(pretrained_dict, model_dict) ==
    [k \in DOMAIN pretrained_dict \cap DOMAIN model_dict |-> pretrained_dict[k]]

\* The update applied the wrong way round: the model's entries win.
UpdateKeepingOld(model_dict, pretrained_dict) ==
    [k \in DOMAIN model_dict \cup DOMAIN pretrained_dict |->
        IF k \in DOMAIN model_dict THEN model_dict[k] ELSE pretrained_dict[k]]

\* model_dict.update(pretrained_dict)
Update(model_dict, pretrained_dict) ==
    [k \in DOMAIN model_dict \cup DOMAIN pretrained_dict |->
        IF k \in DOMAIN pretrained_dict THEN pretrained_dict[k] ELSE model_dict[k]]

\* The keys for which torch's Module.load_state_dict (strict) reports an
\* error: missing, unexpected, or of another shape than the parameter.
LoadErrors(params, state_dict) ==
    (DOMAIN params \ DOMAIN state_dict)
        \cup (DOMAIN state_dict \ DOMAIN params)
        \cup {k \in DOMAIN params \cap DOMAIN state_dict :
                state_dict[k].shape # params[k].shape}

\* The parameters after model.load_state_dict(state_dict): each parameter
\* whose entry has its shape is copied into, the others are left as they are.
LoadStateDict(params, state_dict) ==
    [k \in DOMAIN params |->
        IF k \in DOMAIN state_dict /\ state_dict[k].shape = params[k].shape
        THEN state_dict[k]
        ELSE params[k]]

\* A live model and a weight file.
LdInit ==
    \E params \in [ModelKeys -> Params], file \in StateDicts(FileKeys) :
        ld = [pc |-> "start", file |-> file, params |-> params, old |-> params]

\* load_pretrained_weights(model, pretrained_weights_path)
LoadPretrainedWeights ==
    /\ ld.pc = "start"
    /\ LET loaded == ld.file
           model_dict == ld.params
           pretrained_dict == FilterKeys(loaded, model_dict)
           merged == Update(model_dict, pretrained_dict)
       IN  ld' = [ld EXCEPT
                !.params = LoadStateDict(ld.params, merged),
                !.pc = IF LoadErrors(ld.params, merged) = {}
                       THEN "done" ELSE "RuntimeError"]
    /\ UNCHANGED <<md, gm, gb, net, ds, hs>>

LdSpecInit ==
    /\ LdInit
    /\ md = Idle /\ gm = Idle /\ gb = Idle /\ net = Idle /\ ds = Idle /\ hs = Idle

LdNext == LoadPretrainedWeights

LdSpec == LdSpecInit /\ [][LdNext]_vars

ShapeMismatch ==
    \E k \in DOMAIN ld.old \cap DOMAIN ld.file : ld.file[k].shape # ld.old[k].shape

(***************************************************************************)
(* C8, as stated: for any loaded mapping, with keys the model lacks or     *)
(* with a key of the model under another shape, the call completes         *)
(* without raising.                                                        *)
(***************************************************************************)
C8_NeverRaises == ld.pc # "RuntimeError"

(***************************************************************************)
(* C8, amended: name mismatches are ignored silently, shape mismatches are *)
(* not: the call raises exactly when a key of both mappings has another    *)
(* shape in the loaded mapping than in the model, and then the mismatched  *)
(* parameter keeps its old value.                                          *)
(***************************************************************************)
C8_RaisesOnlyOnShapeMismatch ==
    ld.pc # "start" =>
        /\ (ld.pc = "RuntimeError") <=> ShapeMismatch
        /\ \A k \in DOMAIN ld.old \cap DOMAIN ld.file :
              ld.file[k].shape # ld.old[k].shape => ld.params[k] = ld.old[k]

\* A load that returns although the key sets differ both ways.
C8_Witness ==
    /\ ld.pc = "done"
    /\ DOMAIN ld.file \ DOMAIN ld.old # {}
    /\ DOMAIN ld.old \ DOMAIN ld.file # {}
    /\ DOMAIN ld.old \cap DOMAIN ld.file # {}

(***************************************************************************)
(* CustomDataset (src/FRAIL/data/dataset.py:5-15).                         *)
(*                                                                         *)
(* A file is a sequence of characters; a string is a sequence of           *)
(* characters too.                                                         *)
(***************************************************************************)
Chars == {"a", " ", "\t", "\n"}

Whitespace == {" ", "\t", "\n"}

Files == UNION {[1..k -> Chars] : k \in 0..MaxFileLen}

RECURSIVE ReadLinesFrom(_, _, _)

\* The lines of content from index i on, cur being the line read so far; a
\* line keeps its terminator.
ReadLinesFrom(content, i, cur) ==
    IF i > Len(content)
    THEN IF cur = <<>> THEN <<>> ELSE <<cur>>
    ELSE IF content[i] = "\n"
         THEN <<Append(cur, "\n")>> \o ReadLinesFrom(content, i + 1, <<>>)
         ELSE ReadLinesFrom(content, i + 1, Append(cur, content[i]))

\* file.readlines()
ReadLines(content) == ReadLinesFrom(content, 1, <<>>)

\* The positions of line that hold no whitespace.
Solid(line) == {i \in 1..Len(line) : line[i] \notin Whitespace}

SetMin(S) == CHOOSE i \in S : \A j \in S : i <= j

SetMax(S) == CHOOSE i \in S : \A j \in S : i >= j

\* line.rstrip(): only the trailing whitespace removed.
RStrip(line) ==
    IF Solid(line) = {} THEN <<>> ELSE SubSeq(line, 1, SetMax(Solid(line)))

\* line.strip(): the whitespace at both ends removed.
Strip(line) ==
    IF Solid(line) = {} THEN <<>>
    ELSE SubSeq(line, SetMin(Solid(line)), SetMax(Solid(line)))

\* A file on disk, the dataset not yet constructed.
DsInit ==
    \E file \in Files :
        ds = [pc |-> "init", file |-> file, data |-> <<>>, op |-> "none",
              idx |-> 0, len |-> 0, item |-> <<>>]

\* CustomDataset.__init__
DsConstruct ==
    /\ ds.pc = "init"
    /\ LET lines == ReadLines(ds.file)
       IN  ds' = [ds EXCEPT !.pc = "constructed",
                            !.data = [i \in 1..Len(lines) |-> Strip(lines[i])]]
    /\ UNCHANGED <<md, gm, gb, net, ld, hs>>

\* CustomDataset.__len__
DsLen ==
    /\ ds.pc = "constructed"
    /\ ds' = [ds EXCEPT !.op = "len", !.len = Len(ds.data)]
    /\ UNCHANGED <<md, gm, gb, net, ld, hs>>

\* CustomDataset.__getitem__; the Python index idx is position idx + 1
DsGetItem ==
    /\ ds.pc = "constructed"
    /\ \E idx \in 0..(Len(ds.data) - 1) :
        ds' = [ds EXCEPT !.op = "getitem", !.idx = idx, !.item = ds.data[idx + 1]]
    /\ UNCHANGED <<md, gm, gb, net, ld, hs>>

DsSpecInit ==
    /\ DsInit
    /\ md = Idle /\ gm = Idle /\ gb = Idle /\ net = Idle /\ ld = Idle /\ hs = Idle

DsNext == DsConstruct \/ DsLen \/ DsGetItem

DsSpec == DsSpecInit /\ [][DsNext]_vars

\* The number of lines of a file: its terminators, and one more for a last
\* line without one.
NumLines(file) ==
    Cardinality({i \in 1..Len(file) : file[i] = "\n"})
        + (IF Len(file) > 0 /\ file[Len(file)] # "\n" THEN 1 ELSE 0)

\* The position in file of the first character of line i (from 1): just
\* after the (i-1)-th terminator.
LineStart(file, i) ==
    IF i = 1 THEN 1
    ELSE 1 + CHOOSE p \in 1..Len(file) :
                /\ file[p] = "\n"
                /\ Cardinality({q \in 1..p : file[q] = "\n"}) = i - 1

\* The position in file of the last character of line i, terminator included.
LineEnd(file, i) ==
    LET ends == {p \in LineStart(file, i)..Len(file) : file[p] = "\n"}
    IN  IF ends = {} THEN Len(file) ELSE SetMin(ends)

\* Line i of the file, terminator included.
Line(file, i) == SubSeq(file, LineStart(file, i), LineEnd(file, i))

AllWhitespace(s) == \A i \in 1..Len(s) : s[i] \in Whitespace

\* s is line without its trailing whitespace, the rest unchanged.
IsTrailingStripped(s, line) ==
    /\ Len(s) <= Len(line)
    /\ s = SubSeq(line, 1, Len(s))
    /\ AllWhitespace(SubSeq(line, Len(s) + 1, Len(line)))
    /\ (s # <<>> => s[Len(s)] \notin Whitespace)

\* s is line without its leading and its trailing whitespace.
IsBothStripped(s, line) ==
    /\ s # <<>> => (s[1] \notin Whitespace /\ s[Len(s)] \notin Whitespace)
    /\ \E a \in 0..Len(line) :
          /\ a + Len(s) <= Len(line)
          /\ AllWhitespace(SubSeq(line, 1, a))
          /\ s = SubSeq(line, a + 1, a + Len(s))
          /\ AllWhitespace(SubSeq(line, a + Len(s) + 1, Len(line)))

(***************************************************************************)
(* C9, as stated: a dataset constructed from a file of n lines has length  *)
(* n, and dataset[i] is line i with its trailing whitespace stripped and   *)
(* the rest of the line, leading whitespace included, unchanged.           *)
(***************************************************************************)
C9_TrailingOnly ==
    ds.pc = "constructed" =>
        /\ Len(ds.data) = NumLines(ds.file)
        /\ \A i \in 1..Len(ds.data) : IsTrailingStripped(ds.data[i], Line(ds.file, i))

(***************************************************************************)
(* C9, amended: a dataset constructed from a file of n lines has length n, *)
(* and dataset[i] is line i with both its leading and its trailing         *)
(* whitespace stripped; __len__ and __getitem__ return the length and the  *)
(* element and leave the stored sequence as constructed.                   *)
(***************************************************************************)
C9_BothEndsStripped ==
    ds.pc = "constructed" =>
        /\ Len(ds.data) = NumLines(ds.file)
        /\ \A i \in 1..Len(ds.data) : IsBothStripped(ds.data[i], Line(ds.file, i))
        /\ ds.op = "len" => ds.len = NumLines(ds.file)
        /\ ds.op = "getitem" => IsBothStripped(ds.item, Line(ds.file, ds.idx + 1))

\* An element read from a line that had whitespace at both ends.
C9_Witness ==
    /\ ds.pc = "constructed" /\ ds.op = "getitem"
    /\ ds.item # <<>>
    /\ Line(ds.file, ds.idx + 1)[1] \in Whitespace
    /\ Len(Line(ds.file, ds.idx + 1)) > Len(ds.item) + 1
    /\ Len(ds.data) >= 2

(***************************************************************************)
(* The harness (src/FRAIL/data/dataset.py:17-35): a DataLoader over the    *)
(* dataset, shuffled, and the loop that prints its first batches.          *)
(*                                                                         *)
(* The dataset has n samples, sample i standing for dataset[i]; a batch is *)
(* a sequence of samples.  Shuffling draws each batch from the samples not *)
(* yet drawn, in any order.                                                *)
(***************************************************************************)
LastBatchIndex == 4

\* The loop left one batch later.
BreakAtFive(batch_idx) == batch_idx = 5

\* if batch_idx == 4: break
BreakAt(batch_idx) == batch_idx = LastBatchIndex

\* The batches a sampler can draw next from the samples remaining.
Batches(remaining, batch_size) ==
    LET k == Min(batch_size, Cardinality(remaining))
    IN  {b \in [1..k -> remaining] : \A i, j \in 1..k : i # j => b[i] # b[j]}

Range(f) == {f[i] : i \in DOMAIN f}

\* dataset = CustomDataset(train_file_path), and config.batch_size
HsInit ==
    \E n \in 0..MaxLines, batch_size \in 1..MaxBatchSize :
        hs = [pc |-> "dataloader", n |-> n, batch_size |-> batch_size,
              remaining |-> {}, batch_idx |-> 0, batch |-> <<>>,
              consumed |-> 0, printed |-> <<>>]

\* dataloader = DataLoader(dataset, batch_size=config.batch_size, shuffle=True)
\* and the loop's iter(): a random sampler over an empty dataset raises
\* ValueError in some versions of torch and yields no batch in others.
HsDataLoader ==
    /\ hs.pc = "dataloader"
    /\ \/ hs' = [hs EXCEPT !.pc = "next", !.remaining = 0..(hs.n - 1)]
       \/ /\ hs.n = 0
          /\ hs' = [hs EXCEPT !.pc = "ValueError"]
    /\ UNCHANGED <<md, gm, gb, net, ld, ds>>

\* for batch_idx, batch in enumerate(dataloader): the next batch, or the end
HsNextBatch ==
    /\ hs.pc = "next"
    /\ \/ /\ hs.remaining = {}
          /\ hs' = [hs EXCEPT !.pc = "done"]
       \/ /\ hs.remaining # {}
          /\ \E b \in Batches(hs.remaining, hs.batch_size) :
                hs' = [hs EXCEPT !.pc = "body",
                                 !.batch = b,
                                 !.batch_idx = hs.consumed,
                                 !.consumed = hs.consumed + 1,
                                 !.remaining = hs.remaining \ Range(b)]
    /\ UNCHANGED <<md, gm, gb, net, ld, ds>>

\* print(f"Batch {batch_idx + 1}: {batch}"); if batch_idx == 4: break
HsBody ==
    /\ hs.pc = "body"
    /\ LET line == [n |-> hs.batch_idx + 1, batch |-> hs.batch]
       IN  \/ /\ BreakAt(hs.batch_idx)
              /\ hs' = [hs EXCEPT !.pc = "done", !.printed = Append(hs.printed, line)]
           \/ /\ ~BreakAt(hs.batch_idx)
              /\ hs' = [hs EXCEPT !.pc = "next", !.printed = Append(hs.printed, line)]
    /\ UNCHANGED <<md, gm, gb, net, ld, ds>>

HsSpecInit ==
    /\ HsInit
    /\ md = Idle /\ gm = Idle /\ gb = Idle /\ net = Idle /\ ld = Idle /\ ds = Idle

HsNext == HsDataLoader \/ HsNextBatch \/ HsBody

\* The script is one sequential thread: a step that can be taken is taken.
HsSpec == HsSpecInit /\ [][HsNext]_vars /\ WF_vars(HsNext)

HsStopped == hs.pc \in {"done", "ValueError"}

\* ceil(n / batch_size): the batches of a DataLoader that keeps the last,
\* short batch.
NumBatches(n, batch_size) == (n + batch_size - 1) \div batch_size

PrintedInOrder == \A i \in 1..Len(hs.printed) : hs.printed[i].n = i

(***************************************************************************)
(* C10, as stated: for every dataset and batch size the harness prints     *)
(* "Batch n" for n = 1, 2, 3, 4, 5 in that order, exactly five batches,    *)
(* and then stops.                                                         *)
(***************************************************************************)
C10_ExactlyFive ==
    hs.pc = "done" => (Len(hs.printed) = 5 /\ hs.consumed = 5 /\ PrintedInOrder)

\* What holds of the harness in every state.
HsSafe ==
    /\ PrintedInOrder
    /\ Len(hs.printed) <= 5
    /\ hs.consumed <= 5
    /\ hs.consumed - Len(hs.printed) = (IF hs.pc = "body" THEN 1 ELSE 0)
    /\ hs.pc = "done" =>
          Len(hs.printed) = Min(5, NumBatches(hs.n, hs.batch_size))
    /\ hs.pc = "ValueError" => (hs.n = 0 /\ hs.printed = <<>>)

(***************************************************************************)
(* C10, amended: the harness prints "Batch n" for n = 1 .. min(5, b) in    *)
(* that order, b = ceil(len(dataset) / batch_size) being the number of     *)
(* batches of the dataset, and then stops: at most five batches are        *)
(* consumed and printed, numbered consecutively from 1, never a sixth, and *)
(* the loop terminates.                                                    *)
(***************************************************************************)
C10_FirstFiveAtMost == [](HsSafe) /\ <>(HsStopped)

\* The loop left by the break, with samples still undrawn.
C10_Witness ==
    /\ hs.pc = "done"
    /\ Len(hs.printed) = 5
    /\ hs.remaining # {}

====
